---------------------------- MODULE Spec2Model ----------------------------
(***************************************************************************)
(* A model of the object parser of pdflib, package read (parse.go).        *)
(*                                                                         *)
(* A buffer is a sequence of one-character strings.  Go's 0-based indices  *)
(* are kept in the operators' results; the 1-based indexing of TLA+        *)
(* sequences appears only inside Take, Drop and At.                        *)
(*                                                                         *)
(* The recursive descent parseObject -> parseArray / parseDict ->          *)
(* parseObject is modelled with an explicit call stack: one frame per      *)
(* active parseArray or parseDict call, one action per loop iteration.     *)
(* The scalar parsers return at once and are operators.                    *)
(***************************************************************************)
EXTENDS Integers, Sequences, FiniteSets, TLC

VARIABLES
    op,      \* the entry point that was called
    input,   \* the argument of the call, as it was when the call was made
    callerLine, \* the string behind the `line` pointer the caller passed
    stack,   \* the active parseArray / parseDict calls, innermost last
    pc,      \* "call": not yet called, "run": inside the call, "done": returned
    result   \* what the call returned: a value or an error

vars == <<op, input, callerLine, stack, pc, result>>

---------------------------------------------------------------------------
(* Bounds of the model. *)

\* longest buffer of single characters handed to a parser
MaxLen == 6
\* most tokens concatenated into a dictionary buffer
MaxToks == 5
\* most elements of a stream dictionary's Index array
MaxIndexLen == 4

---------------------------------------------------------------------------
(* The error values of parse.go. *)

errArrayCorrupt == "parse: corrupt array"
errArrayNotTerminated == "parse: unterminated array"
errDictionaryCorrupt == "parse: corrupt dictionary"
errDictionaryDuplicateKey == "parse: duplicate key"
errDictionaryNotTerminated == "parse: unterminated dictionary"
errHexLiteralCorrupt == "parse: corrupt hex literal"
errHexLiteralNotTerminated == "parse: hex literal not terminated"
errNameObjectCorrupt == "parse: corrupt name object"
errNoArray == "parse: no array"
errNoDictionary == "parse: no dictionary"
errStringLiteralCorrupt == "parse: corrupt string literal, possibly unbalanced parenthesis"
errBufNotAvailable == "parse: no buffer available"
errXrefStreamMissingW == "parse: xref stream dict missing entry W"
errXrefStreamCorruptW == "parse: xref stream dict corrupt entry W: expecting array of 3 int"
errXrefStreamCorruptIndex == "parse: xref stream dict corrupt entry Index"
\* the error strconv.ParseFloat returns for a token that is no number
errSyntaxNumber == "strconv.ParseFloat: invalid syntax"
\* the error strconv.Atoi returns for a token that is no integer
errSyntaxInteger == "strconv.Atoi: invalid syntax"
\* the errors of parseObjectAttributes
errAttrBufNotAvailable == "ParseObjectAttributes: buf not available"
errAttrNoObj == "ParseObjectAttributes: can't find \"obj\""
errAttrNoObjectNumber == "ParseObjectAttributes: can't find object number"
errAttrNoObjectNumberEnd == "ParseObjectAttributes: can't find end of object number"
errAttrNoGenerationNumber == "ParseObjectAttributes: can't find generation number"
errAttrNoGenerationNumberEnd ==
    "ParseObjectAttributes: can't find end of generation number"
\* the error of parseXRefStreamDict for a dictionary without Size
errSizeNotAvailable == "ParseXRefStreamDict: \"Size\" not available"

---------------------------------------------------------------------------
(* Go's string operations, on sequences of characters. *)

\* s[:n]
Take(s, n) == SubSeq(s, 1, n)
\* s[n:]
Drop(s, n) == SubSeq(s, n + 1, Len(s))
\* s[i], i counted from 0
At(s, i) == s[i + 1]

\* strings.HasPrefix
HasPrefix(s, p) == Len(s) >= Len(p) /\ Take(s, Len(p)) = p

\* strings.Index: the 0-based place of the first p in s, or -1
Index(s, p) ==
    LET hits == {i \in 0..(Len(s) - Len(p)) : SubSeq(s, i + 1, i + Len(p)) = p}
    IN IF hits = {} THEN -1 ELSE CHOOSE i \in hits : \A j \in hits : i <= j

\* unicode.IsSpace, on the characters a TLA+ string can hold
IsSpace(c) == c \in {" ", "\t", "\n", "\f", "\r"}

forwardParseBuf(buf, pos) == IF pos < Len(buf) THEN Drop(buf, pos) ELSE <<>>

delimiter(b) == b \in {"<", ">", "[", "]", "(", ")", "/"}

\* The buffer without its leading white space (the second result, unused by
\* every caller in parse.go, is left out).
trimLeftSpace(s) ==
    LET stops == {i \in 0..(Len(s) - 1) : ~IsSpace(At(s, i))}
    IN IF stops = {} THEN <<>>
       ELSE Drop(s, CHOOSE i \in stops : \A j \in stops : i <= j)

\* The 0-based place of the first character of s that is white space or one
\* of chars.  0 when there is none: the callers in parse.go read 0 as
\* "nothing to cut off" (lines 422-431, 453, 476, 317-324).
positionToNextWhitespaceOrChar(s, chars) ==
    LET hits == {i \in 0..(Len(s) - 1) : IsSpace(At(s, i)) \/ At(s, i) \in chars}
    IN IF hits = {} \/ chars = {} THEN 0
       ELSE CHOOSE i \in hits : \A j \in hits : i <= j

---------------------------------------------------------------------------
(* strconv.Atoi and strconv.ParseFloat. *)

Digits == {"0", "1", "2", "3", "4", "5", "6", "7", "8", "9"}

DigitVal(c) ==
    CASE c = "0" -> 0 [] c = "1" -> 1 [] c = "2" -> 2 [] c = "3" -> 3
      [] c = "4" -> 4 [] c = "5" -> 5 [] c = "6" -> 6 [] c = "7" -> 7
      [] c = "8" -> 8 [] c = "9" -> 9

RECURSIVE DecVal(_)
DecVal(s) == IF Len(s) = 0 THEN 0
             ELSE 10 * DecVal(Take(s, Len(s) - 1)) + DigitVal(s[Len(s)])

AllDigits(s) == \A i \in 1..Len(s) : s[i] \in Digits

Signed(s) == Len(s) > 0 /\ s[1] \in {"+", "-"}
Unsigned(s) == IF Signed(s) THEN Drop(s, 1) ELSE s
SignOf(s) == IF Signed(s) /\ s[1] = "-" THEN -1 ELSE 1

\* strconv.Atoi: an optional sign and one or more decimal digits.  The
\* tokens of the model are far shorter than the 19 digits of an int.
Atoi(s) ==
    LET d == Unsigned(s)
    IN IF Len(d) > 0 /\ AllDigits(d)
       THEN [ok |-> TRUE, v |-> SignOf(s) * DecVal(d)]
       ELSE [ok |-> FALSE, v |-> 0]

RECURSIVE Pow10(_)
Pow10(k) == IF k = 0 THEN 1 ELSE 10 * Pow10(k - 1)

\* m / 10^k without the zeros that end the fraction
RECURSIVE Normal(_, _)
Normal(m, k) == IF k > 0 /\ m % 10 = 0 THEN Normal(m \div 10, k - 1) ELSE <<m, k>>

\* strconv.ParseFloat(s, 64) on decimal tokens without an exponent: an
\* optional sign, digits, an optional point, digits, with a digit on at
\* least one side of the point.  v is <<m, k>> for the number m / 10^k.
ParseFloat(s) ==
    LET d == Unsigned(s)
        p == Index(d, <<".">>)
        ip == IF p < 0 THEN d ELSE Take(d, p)
        fp == IF p < 0 THEN <<>> ELSE Drop(d, p + 1)
    IN IF AllDigits(ip) /\ AllDigits(fp) /\ Len(ip) + Len(fp) > 0
       THEN [ok |-> TRUE,
             v |-> Normal(SignOf(s) * (DecVal(ip) * Pow10(Len(fp)) + DecVal(fp)), Len(fp))]
       ELSE [ok |-> FALSE, v |-> <<0, 0>>]

---------------------------------------------------------------------------
(* The object model (package types) and what a parser returns.  Each kind *)
(* of object has a field of its own for what it holds.                     *)

PDFNull == [t |-> "Null"]
PDFBoolean(b) == [t |-> "Boolean", b |-> b]
PDFInteger(i) == [t |-> "Integer", i |-> i]
PDFFloat(f) == [t |-> "Float", f |-> f]
PDFName(s) == [t |-> "Name", name |-> s]
PDFStringLiteral(s) == [t |-> "StringLiteral", str |-> s]
PDFHexLiteral(s) == [t |-> "HexLiteral", hex |-> s]
PDFArray(elems) == [t |-> "Array", arr |-> elems]
\* the entries of a dictionary in the order of insertion, each <<key, value>>
PDFDict(entries) == [t |-> "Dict", dict |-> entries]
NewPDFIndirectRef(objNr, genNr) == [t |-> "IndirectRef", obj |-> objNr, gen |-> genNr]

NoValue == [t |-> "none"]

\* A return with a value: rest is what the parser stored through `line`.
Ok(val, rest) == [ok |-> TRUE, err |-> "", val |-> val, rest |-> rest]
\* A return with an error: the string behind `line` is as it was.
Fail(err, ln) == [ok |-> FALSE, err |-> err, val |-> NoValue, rest |-> ln]

---------------------------------------------------------------------------
(* The helpers of package read that the scalar parsers call. *)

HexDigits == Digits \cup {"A", "B", "C", "D", "E", "F"}

ToUpper(c) ==
    CASE c = "a" -> "A" [] c = "b" -> "B" [] c = "c" -> "C"
      [] c = "d" -> "D" [] c = "e" -> "E" [] c = "f" -> "F" [] OTHER -> c

\* The hex digits of s in upper case, white space left out, with a 0 added
\* to an odd number of digits; not ok when s holds anything else.
hexString(s) ==
    LET d == SelectSeq(s, LAMBDA c : ~IsSpace(c))
        uc == [i \in 1..Len(d) |-> ToUpper(d[i])]
    IN IF \A i \in 1..Len(uc) : uc[i] \in HexDigits
       THEN [ok |-> TRUE, v |-> IF Len(uc) % 2 = 1 THEN Append(uc, "0") ELSE uc]
       ELSE [ok |-> FALSE, v |-> <<>>]

\* The 0-based place of the ")" that closes the "(" s starts with, or -1.
\* A backslash takes the character after it out of the count.
RECURSIVE BalancedFrom(_, _, _)
BalancedFrom(s, i, depth) ==
    IF i >= Len(s) THEN -1
    ELSE LET c == At(s, i) IN
         IF c = "\\" THEN BalancedFrom(s, i + 2, depth)
         ELSE LET d == IF c = "(" THEN depth + 1
                       ELSE IF c = ")" THEN depth - 1 ELSE depth
              IN IF d = 0 THEN i ELSE BalancedFrom(s, i + 1, d)

balancedParenthesesPrefix(s) == BalancedFrom(s, 0, 0)

\* The byte of a character, for the characters the model's buffers hold.
ByteOf(c) ==
    CASE c = "\t" -> 9 [] c = "\n" -> 10 [] c = "\f" -> 12 [] c = "\r" -> 13
      [] c = " " -> 32 [] c = "(" -> 40 [] c = ")" -> 41 [] c = "+" -> 43
      [] c = "-" -> 45 [] c = "." -> 46 [] c = "/" -> 47
      [] c \in Digits -> 48 + DigitVal(c)
      [] c = "<" -> 60 [] c = ">" -> 62 [] c = "A" -> 65 [] c = "B" -> 66
      [] c = "G" -> 71 [] c = "R" -> 82 [] c = "[" -> 91 [] c = "\\" -> 92
      [] c = "]" -> 93 [] c = "b" -> 98 [] c = "f" -> 102 [] c = "n" -> 110
      [] c = "r" -> 114 [] c = "t" -> 116

OctalDigits == {"0", "1", "2", "3", "4", "5", "6", "7"}

\* how many of the (at most 3) characters of s from place i on are octal digits
OctalRun(s, i) ==
    IF i < Len(s) /\ At(s, i) \in OctalDigits
    THEN IF i + 1 < Len(s) /\ At(s, i + 1) \in OctalDigits
         THEN IF i + 2 < Len(s) /\ At(s, i + 2) \in OctalDigits THEN 3 ELSE 2
         ELSE 1
    ELSE 0

RECURSIVE OctVal(_)
OctVal(s) == IF Len(s) = 0 THEN 0
             ELSE 8 * OctVal(Take(s, Len(s) - 1)) + DigitVal(s[Len(s)])

\* The bytes of a string literal's interior (7.3.4.2): escape sequences
\* resolved, an unknown escape keeps its character, a line break becomes
\* 0x0A, a backslash before a line break joins the lines.
RECURSIVE DecodeFrom(_, _)
DecodeFrom(s, i) ==
    IF i >= Len(s) THEN <<>>
    ELSE LET c == At(s, i) IN
      IF c = "\\" THEN
        IF i + 1 >= Len(s) THEN <<>>
        ELSE LET e == At(s, i + 1) IN
          IF e = "n" THEN <<10>> \o DecodeFrom(s, i + 2)
          ELSE IF e = "r" THEN <<13>> \o DecodeFrom(s, i + 2)
          ELSE IF e = "t" THEN <<9>> \o DecodeFrom(s, i + 2)
          ELSE IF e = "b" THEN <<8>> \o DecodeFrom(s, i + 2)
          ELSE IF e = "f" THEN <<12>> \o DecodeFrom(s, i + 2)
          ELSE IF e \in OctalDigits THEN
            LET n == OctalRun(s, i + 1)
            IN <<OctVal(SubSeq(s, i + 2, i + 1 + n)) % 256>> \o DecodeFrom(s, i + 1 + n)
          ELSE IF e = "\r" /\ i + 2 < Len(s) /\ At(s, i + 2) = "\n"
            THEN DecodeFrom(s, i + 3)
          ELSE IF e \in {"\r", "\n"} THEN DecodeFrom(s, i + 2)
          ELSE <<ByteOf(e)>> \o DecodeFrom(s, i + 2)
      ELSE IF c = "\r" /\ i + 1 < Len(s) /\ At(s, i + 1) = "\n"
        THEN <<10>> \o DecodeFrom(s, i + 2)
      ELSE IF c \in {"\r", "\n"} THEN <<10>> \o DecodeFrom(s, i + 1)
      ELSE <<ByteOf(c)>> \o DecodeFrom(s, i + 1)

stringLiteral(s) == DecodeFrom(s, 0)

---------------------------------------------------------------------------
(* The scalar parsers.  Each takes the string behind `line` and returns     *)
(* Ok(value, the string it stored through `line`) or Fail(error, line).    *)

parseStringLiteral(line) ==
    IF Len(line) = 0 THEN Fail(errBufNotAvailable, line)
    ELSE IF Len(line) < 2 \/ ~HasPrefix(line, <<"(">>)
    THEN Fail(errStringLiteralCorrupt, line)
    ELSE LET i == balancedParenthesesPrefix(line) IN
         IF i < 0 THEN Fail(errStringLiteralCorrupt, line)
         ELSE Ok(PDFStringLiteral(stringLiteral(SubSeq(line, 2, i))),
                 forwardParseBuf(Drop(line, i), 1))

\* parseHexLiteral with the digits looked at before the closing ">"
parseHexLiteralDigitsFirst(line) ==
    IF Len(line) = 0 THEN Fail(errBufNotAvailable, line)
    ELSE IF Len(line) < 3 \/ ~HasPrefix(line, <<"<">>)
    THEN Fail(errHexLiteralCorrupt, line)
    ELSE LET l == forwardParseBuf(line, 1)
             eov == Index(l, <<">">>)
             h == hexString(IF eov < 0 THEN l ELSE Take(l, eov))
         IN IF ~h.ok THEN Fail(errHexLiteralCorrupt, line)
            ELSE IF eov < 0 THEN Fail(errHexLiteralNotTerminated, line)
            ELSE Ok(PDFHexLiteral(h.v), forwardParseBuf(Drop(l, eov), 1))

parseHexLiteral(line) ==
    IF Len(line) = 0 THEN Fail(errBufNotAvailable, line)
    ELSE IF Len(line) < 3 \/ ~HasPrefix(line, <<"<">>)
    THEN Fail(errHexLiteralCorrupt, line)
    ELSE LET l == forwardParseBuf(line, 1)
             eov == Index(l, <<">">>)
         IN IF eov < 0 THEN Fail(errHexLiteralNotTerminated, line)
            ELSE LET h == hexString(Take(l, eov)) IN
                 IF ~h.ok THEN Fail(errHexLiteralCorrupt, line)
                 ELSE Ok(PDFHexLiteral(h.v), forwardParseBuf(Drop(l, eov), 1))

\* the characters parseName cuts a name off at, besides white space
NameStops == {"/", "<", ">", "(", ")", "[", "]"}

parseName(line) ==
    IF Len(line) = 0 THEN Fail(errBufNotAvailable, line)
    ELSE IF Len(line) < 2 \/ ~HasPrefix(line, <<"/">>)
    THEN Fail(errNameObjectCorrupt, line)
    ELSE LET l == forwardParseBuf(line, 1)
             eok == positionToNextWhitespaceOrChar(l, NameStops)
         IN IF eok > 0 \/ IsSpace(At(l, 0))
            THEN Ok(PDFName(Take(l, eok)), Drop(l, eok))
            ELSE Ok(PDFName(l), <<>>)

\* the characters parseNumericOrIndRef ends a token at, besides white space
NumericStops == {"/", "<", "(", "[", "]", ">"}

\* What parseNumericOrIndRef returns once the second integer iref2 is read
\* (lines 497-519); l is the buffer from the end of the second token on, l1
\* the buffer behind the first token.  With only white space left the code
\* assigns l1 to its local l, not through `line` (line 505): the caller's
\* string stays as it was.
indRefTail(line, l, l1, iref1, iref2) ==
    LET t == trimLeftSpace(l) IN
    IF Len(t) = 0 THEN Ok(PDFInteger(iref1), line)
    ELSE IF At(t, 0) = "R"
    THEN Ok(NewPDFIndirectRef(iref1, iref2), forwardParseBuf(t, 1))
    ELSE Ok(PDFInteger(iref1), l1)

parseNumericOrIndRef(line) ==
    IF Len(line) = 0 THEN Fail(errBufNotAvailable, line)
    ELSE
    LET i1 == positionToNextWhitespaceOrChar(line, NumericStops)
        l1 == IF i1 > 0 THEN Drop(line, i1) ELSE <<>>
        str == IF i1 > 0 THEN Take(line, i1) ELSE line
        i == Atoi(str)
    IN
    IF ~i.ok THEN
        LET f == ParseFloat(str) IN
        IF ~f.ok THEN Fail(errSyntaxNumber, line) ELSE Ok(PDFFloat(f.v), l1)
    ELSE IF i1 = 0 \/ delimiter(At(line, i1)) THEN Ok(PDFInteger(i.v), l1)
    ELSE
    LET l == trimLeftSpace(Drop(line, i1)) IN
    IF Len(l) = 0 THEN Ok(PDFInteger(i.v), l1)
    ELSE
    LET i2 == positionToNextWhitespaceOrChar(l, NumericStops) IN
    IF i2 = 0 \/ delimiter(At(l, i2)) THEN Ok(PDFInteger(i.v), l1)
    ELSE
    LET iref2 == Atoi(Take(l, i2)) IN
    IF ~iref2.ok THEN Ok(PDFInteger(i.v), l1)
    ELSE indRefTail(line, Drop(l, i2), l1, i.v, iref2.v)

---------------------------------------------------------------------------
(* parseObjectAttributes. *)

\* the two results objectNumber and generationNumber, as one value
ObjectAttributes(objNr, genNr) ==
    [t |-> "ObjectAttributes", objectNumber |-> objNr, generationNumber |-> genNr]

\* the keyword that ends the attributes, and the character a comment starts with
ObjKeyword == <<"o", "b", "j">>
AttrStops == {"%"}

\* lines 113-134: the generation number in l, behind the object number
attrGeneration(line, l, remainder, objNr) ==
    LET l1 == trimLeftSpace(l) IN
    IF Len(l1) = 0 THEN Fail(errAttrNoGenerationNumber, line)
    ELSE LET i == positionToNextWhitespaceOrChar(l1, AttrStops) IN
         IF i = 0 THEN Fail(errAttrNoGenerationNumberEnd, line)
         ELSE LET genNr == Atoi(Take(l1, i)) IN
              IF ~genNr.ok THEN Fail(errSyntaxInteger, line)
              ELSE Ok(ObjectAttributes(objNr, genNr.v), remainder)

parseObjectAttributes(line) ==
    IF Len(line) = 0 THEN Fail(errAttrBufNotAvailable, line)
    ELSE LET i == Index(line, ObjKeyword) IN
    IF i < 0 THEN Fail(errAttrNoObj, line)
    ELSE LET remainder == Drop(line, i + Len(ObjKeyword))
             l == trimLeftSpace(Take(line, i))
         IN
    IF Len(l) = 0 THEN Fail(errAttrNoObjectNumber, line)
    ELSE LET i1 == positionToNextWhitespaceOrChar(l, AttrStops) IN
    IF i1 = 0 THEN Fail(errAttrNoObjectNumberEnd, line)
    ELSE LET objNr == Atoi(Take(l, i1)) IN
    IF ~objNr.ok THEN Fail(errSyntaxInteger, line)
    ELSE attrGeneration(line, Drop(l, i1), remainder, objNr.v)

---------------------------------------------------------------------------
(* parseObject, parseArray and parseDict. *)

\* One active call of parseArray or parseDict:
\*   fn     the function,
\*   l      its local string l,
\*   items  arr (the elements) or dict (the entries <<key, value>>) so far,
\*   key    parseDict only: the key whose value is being parsed,
\*   keys   parseDict only: every key parseName has returned in this call.
Frame(fn, l) == [fn |-> fn, l |-> l, items |-> <<>>, key |-> <<>>, keys |-> <<>>]

NoFrame == Frame("none", <<>>)

Top == stack[Len(stack)]

\* arrayEnter without the trimLeftSpace of line 162
arrayEnterUntrimmed(line) ==
    IF Len(line) = 0 THEN Fail(errNoArray, line)
    ELSE IF ~HasPrefix(line, <<"[">>) THEN Fail(errArrayCorrupt, line)
    ELSE IF Len(line) = 1 THEN Fail(errArrayNotTerminated, line)
    ELSE Ok(NoValue, forwardParseBuf(line, 1))

\* parseArray up to its loop: Ok with the string l the loop starts on.
arrayEnter(line) ==
    IF Len(line) = 0 THEN Fail(errNoArray, line)
    ELSE IF ~HasPrefix(line, <<"[">>) THEN Fail(errArrayCorrupt, line)
    ELSE IF Len(line) = 1 THEN Fail(errArrayNotTerminated, line)
    ELSE LET l == trimLeftSpace(forwardParseBuf(line, 1)) IN
         IF Len(l) = 0 THEN Fail(errArrayNotTerminated, line)
         ELSE Ok(NoValue, l)

\* parseDict up to its loop: Ok with the string l the loop starts on.
dictEnter(line) ==
    IF Len(line) = 0 THEN Fail(errNoDictionary, line)
    ELSE IF Len(line) < 4 \/ ~HasPrefix(line, <<"<", "<">>)
    THEN Fail(errDictionaryCorrupt, line)
    ELSE LET l == trimLeftSpace(forwardParseBuf(line, 2)) IN
         IF Len(l) = 0 THEN Fail(errDictionaryNotTerminated, line)
         ELSE Ok(NoValue, l)

\* The case parseObject's switch takes on l, which is trimmed and not empty.
Dispatch(l) ==
    IF At(l, 0) = "[" THEN "parseArray"
    ELSE IF At(l, 0) = "<" /\ Len(l) >= 2 /\ At(l, 1) = "<" THEN "parseDict"
    ELSE "scalar"

\* The cases of parseObject's switch that do not recurse, on the trimmed l.
parseScalar(l) ==
    IF At(l, 0) = "/" THEN parseName(l)
    ELSE IF At(l, 0) = "<"
    THEN IF Len(l) < 2 THEN Fail(errBufNotAvailable, l) ELSE parseHexLiteral(l)
    ELSE IF At(l, 0) = "(" THEN parseStringLiteral(l)
    ELSE IF HasPrefix(l, <<"n", "u", "l", "l">>) THEN Ok(PDFNull, forwardParseBuf(l, 4))
    ELSE IF HasPrefix(l, <<"t", "r", "u", "e">>)
    THEN Ok(PDFBoolean(TRUE), forwardParseBuf(l, 4))
    ELSE IF HasPrefix(l, <<"f", "a", "l", "s", "e">>)
    THEN Ok(PDFBoolean(FALSE), forwardParseBuf(l, 5))
    ELSE parseNumericOrIndRef(l)

\* parseObject storing its trimmed l through `line` before the case of the
\* switch has returned: a scalar that fails leaves the caller the trimmed string
parseObjectStoresTrimmed(line) ==
    IF Len(line) = 0
    THEN [push |-> FALSE, r |-> Fail(errBufNotAvailable, line), frame |-> NoFrame]
    ELSE LET l == trimLeftSpace(line) IN
    IF Len(l) = 0
    THEN [push |-> FALSE, r |-> Fail(errBufNotAvailable, line), frame |-> NoFrame]
    ELSE IF Dispatch(l) = "scalar"
    THEN [push |-> FALSE, r |-> parseScalar(l), frame |-> NoFrame]
    ELSE LET e == IF Dispatch(l) = "parseArray" THEN arrayEnter(l) ELSE dictEnter(l)
         IN IF e.ok
            THEN [push |-> TRUE, r |-> e, frame |-> Frame(Dispatch(l), e.rest)]
            ELSE [push |-> FALSE, r |-> Fail(e.err, line), frame |-> NoFrame]

\* parseObject(&line) up to the point where it returns or has called
\* parseArray / parseDict, which has reached its loop: either the return
\* (push = FALSE, r) or the frame of the call (push = TRUE, frame).
parseObject(line) ==
    IF Len(line) = 0
    THEN [push |-> FALSE, r |-> Fail(errBufNotAvailable, line), frame |-> NoFrame]
    ELSE LET l == trimLeftSpace(line) IN
    IF Len(l) = 0
    THEN [push |-> FALSE, r |-> Fail(errBufNotAvailable, line), frame |-> NoFrame]
    ELSE IF Dispatch(l) = "scalar"
    THEN LET r == parseScalar(l)
         IN [push |-> FALSE, r |-> IF r.ok THEN r ELSE Fail(r.err, line), frame |-> NoFrame]
    ELSE LET e == IF Dispatch(l) = "parseArray" THEN arrayEnter(l) ELSE dictEnter(l)
         IN IF e.ok
            THEN [push |-> TRUE, r |-> e, frame |-> Frame(Dispatch(l), e.rest)]
            ELSE [push |-> FALSE, r |-> Fail(e.err, line), frame |-> NoFrame]

\* PDFDict.Insert: the entry is added unless the key is there already.
Insert(dict, key, obj) ==
    IF \E i \in 1..Len(dict) : dict[i][1] = key
    THEN [ok |-> FALSE, dict |-> dict]
    ELSE [ok |-> TRUE, dict |-> Append(dict, <<key, obj>>)]

\* parseArray's loop body behind parseObject (lines 177-189): obj is the
\* element, l what parseObject left of the string.
arrayAfter(f, obj, l) ==
    LET arr == Append(f.items, obj) IN
    IF Len(l) = 0 THEN [ok |-> FALSE, err |-> errArrayNotTerminated, frame |-> f]
    ELSE LET t == trimLeftSpace(l) IN
         IF Len(t) = 0 THEN [ok |-> FALSE, err |-> errArrayNotTerminated, frame |-> f]
         ELSE [ok |-> TRUE, err |-> "", frame |-> [f EXCEPT !.items = arr, !.l = t]]

\* dictAfter without the test of Insert's result: the key read twice is
\* not reported.
dictAfterUnchecked(f, obj, l) ==
    LET ins == Insert(f.items, f.key, obj) IN
    IF Len(l) = 0 THEN [ok |-> FALSE, err |-> errDictionaryNotTerminated, frame |-> f]
    ELSE LET t == trimLeftSpace(l) IN
         IF Len(t) = 0
         THEN [ok |-> FALSE, err |-> errDictionaryNotTerminated, frame |-> f]
         ELSE [ok |-> TRUE, err |-> "",
               frame |-> [f EXCEPT !.items = ins.dict, !.l = t, !.key = <<>>]]

\* parseDict's loop body behind parseObject (lines 380-394): obj is the
\* value of f.key, l what parseObject left of the string.
dictAfter(f, obj, l) ==
    LET ins == Insert(f.items, f.key, obj) IN
    IF ~ins.ok THEN [ok |-> FALSE, err |-> errDictionaryDuplicateKey, frame |-> f]
    ELSE IF Len(l) = 0 THEN [ok |-> FALSE, err |-> errDictionaryNotTerminated, frame |-> f]
    ELSE LET t == trimLeftSpace(l) IN
         IF Len(t) = 0
         THEN [ok |-> FALSE, err |-> errDictionaryNotTerminated, frame |-> f]
         ELSE [ok |-> TRUE, err |-> "",
               frame |-> [f EXCEPT !.items = ins.dict, !.l = t, !.key = <<>>]]

\* parseDict's loop body up to parseObject (lines 360-373): the key is
\* parsed and the string positioned on the value.  Ok with the frame that
\* holds the key, l on the value.
dictKey(f) ==
    LET k == parseName(f.l) IN
    IF ~k.ok THEN [ok |-> FALSE, err |-> k.err, frame |-> f]
    ELSE LET t == trimLeftSpace(k.rest)
             g == [f EXCEPT !.key = k.val.name, !.keys = Append(f.keys, k.val.name), !.l = t]
         IN IF Len(t) = 0
            THEN [ok |-> FALSE, err |-> errDictionaryNotTerminated, frame |-> g]
            ELSE [ok |-> TRUE, err |-> "", frame |-> g]

---------------------------------------------------------------------------
(* The calls the model makes. *)

NoResult == [ok |-> FALSE, err |-> "", val |-> NoValue, rest |-> <<>>]

\* every string over alphabet of at most n characters
StringsUpTo(alphabet, n) == UNION {[1..k -> alphabet] : k \in 0..n}

RECURSIVE Flatten(_)
Flatten(ts) == IF Len(ts) = 0 THEN <<>> ELSE ts[1] \o Flatten(Drop(ts, 1))

NameBufs == StringsUpTo({"/", "A", " ", "["}, MaxLen - 2)
HexBufs == StringsUpTo({"<", ">", "4", "G"}, MaxLen - 2)
StringBufs == StringsUpTo({"(", ")", "\\", "A"}, MaxLen - 2)
NumericBufs == StringsUpTo({"1", " ", "R", "/"}, MaxLen)
ArrayBufs == StringsUpTo({"[", "]", "1", " "}, MaxLen - 1)

DictTokens == {<<"<", "<">>, <<">", ">">>, <<"/", "A", " ", "1">>,
               <<"/", "B", " ", "1">>, <<"/", "A">>, <<" ">>}
DictBufs == {Flatten(ts) : ts \in StringsUpTo(DictTokens, MaxToks)}

AttrTokens == {<<"1">>, <<" ">>, <<"%">>, <<"A">>, ObjKeyword}
AttrBufs == {Flatten(ts) : ts \in StringsUpTo(AttrTokens, MaxToks)}

Calls ==
    ({"parseName"} \X NameBufs)
    \cup ({"parseObjectAttributes"} \X AttrBufs)
    \cup ({"parseHexLiteral", "parseObject"} \X HexBufs)
    \cup ({"parseStringLiteral"} \X StringBufs)
    \cup ({"parseNumericOrIndRef", "parseObject"} \X NumericBufs)
    \cup ({"parseArray", "parseObject"} \X ArrayBufs)
    \cup ({"parseDict"} \X DictBufs)

Init ==
    /\ \E c \in Calls : op = c[1] /\ input = c[2] /\ callerLine = c[2]
    /\ stack = <<>>
    /\ pc = "call"
    /\ result = NoResult

---------------------------------------------------------------------------
(* The steps. *)

\* The call returns r to the caller; an error return has unwound every
\* active call, none of which stores through its `line`.
Return(r) ==
    /\ pc' = "done"
    /\ result' = r
    /\ callerLine' = r.rest
    /\ stack' = <<>>
    /\ UNCHANGED <<op, input>>

\* The call of parseArray / parseDict has reached its loop.
Push(frame) ==
    /\ stack' = Append(stack, frame)
    /\ pc' = "run"
    /\ UNCHANGED <<op, input, callerLine, result>>

\* The loop of the innermost call goes on, or the call fails.
Continue(a) ==
    IF a.ok
    THEN /\ stack' = [stack EXCEPT ![Len(stack)] = a.frame]
         /\ UNCHANGED <<op, input, callerLine, pc, result>>
    ELSE Return(Fail(a.err, callerLine))

\* The innermost call returns obj and has stored rest through its `line`,
\* which is the l of the parseObject that called it; parseObject hands both
\* on to its own caller.
Deliver(obj, rest) ==
    LET callers == Take(stack, Len(stack) - 1) IN
    IF Len(callers) = 0 THEN Return(Ok(obj, rest))
    ELSE LET f == callers[Len(callers)]
             a == IF f.fn = "parseArray" THEN arrayAfter(f, obj, rest)
                  ELSE dictAfter(f, obj, rest)
         IN IF a.ok
            THEN /\ stack' = [callers EXCEPT ![Len(callers)] = a.frame]
                 /\ UNCHANGED <<op, input, callerLine, pc, result>>
            ELSE Return(Fail(a.err, callerLine))

Called(fn) == pc = "call" /\ op = fn

CallParseName == Called("parseName") /\ Return(parseName(callerLine))

CallParseHexLiteral == Called("parseHexLiteral") /\ Return(parseHexLiteral(callerLine))

CallParseStringLiteral ==
    Called("parseStringLiteral") /\ Return(parseStringLiteral(callerLine))

CallParseNumericOrIndRef ==
    Called("parseNumericOrIndRef") /\ Return(parseNumericOrIndRef(callerLine))

CallParseObjectAttributes ==
    Called("parseObjectAttributes") /\ Return(parseObjectAttributes(callerLine))

CallParseObject ==
    /\ Called("parseObject")
    /\ LET s == parseObject(callerLine)
       IN IF s.push THEN Push(s.frame) ELSE Return(s.r)

CallParseArray ==
    /\ Called("parseArray")
    /\ LET e == arrayEnter(callerLine)
       IN IF e.ok THEN Push(Frame("parseArray", e.rest)) ELSE Return(e)

CallParseDict ==
    /\ Called("parseDict")
    /\ LET e == dictEnter(callerLine)
       IN IF e.ok THEN Push(Frame("parseDict", e.rest)) ELSE Return(e)

InLoop(fn) == pc = "run" /\ Top.fn = fn

\* An array holds no more elements than the input has bytes; the loop is
\* followed one iteration further than that.
ArrayRoom == Len(Top.items) <= Len(input)

\* one iteration of parseArray's loop whose element is parsed without recursion
ArrayElement ==
    /\ InLoop("parseArray")
    /\ ~HasPrefix(Top.l, <<"]">>)
    /\ ArrayRoom
    /\ LET s == parseObject(Top.l) IN
       /\ ~s.push
       /\ IF s.r.ok THEN Continue(arrayAfter(Top, s.r.val, s.r.rest))
          ELSE Return(Fail(s.r.err, callerLine))

\* parseArray's loop calls parseObject on an array or a dictionary
ArrayNested ==
    /\ InLoop("parseArray")
    /\ ~HasPrefix(Top.l, <<"]">>)
    /\ ArrayRoom
    /\ LET s == parseObject(Top.l) IN s.push /\ Push(s.frame)

\* parseArray finds "]" and returns
ArrayClose ==
    /\ InLoop("parseArray")
    /\ HasPrefix(Top.l, <<"]">>)
    /\ Deliver(PDFArray(Top.items), forwardParseBuf(Top.l, 1))

\* one iteration of parseDict's loop whose value is parsed without recursion
DictEntry ==
    /\ InLoop("parseDict")
    /\ ~HasPrefix(Top.l, <<">", ">">>)
    /\ LET k == dictKey(Top) IN
       IF ~k.ok THEN Return(Fail(k.err, callerLine))
       ELSE LET s == parseObject(k.frame.l) IN
            /\ ~s.push
            /\ IF s.r.ok THEN Continue(dictAfter(k.frame, s.r.val, s.r.rest))
               ELSE Return(Fail(s.r.err, callerLine))

\* parseDict's loop calls parseObject on an array or a dictionary
DictNested ==
    /\ InLoop("parseDict")
    /\ ~HasPrefix(Top.l, <<">", ">">>)
    /\ LET k == dictKey(Top) IN
       /\ k.ok
       /\ LET s == parseObject(k.frame.l) IN
          /\ s.push
          /\ stack' = Append([stack EXCEPT ![Len(stack)] = k.frame], s.frame)
          /\ UNCHANGED <<op, input, callerLine, pc, result>>

\* parseDict finds ">>" and returns
DictClose ==
    /\ InLoop("parseDict")
    /\ HasPrefix(Top.l, <<">", ">">>)
    /\ Deliver(PDFDict(Top.items), forwardParseBuf(Top.l, 2))

Next ==
    \/ CallParseName
    \/ CallParseHexLiteral
    \/ CallParseStringLiteral
    \/ CallParseNumericOrIndRef
    \/ CallParseObjectAttributes
    \/ CallParseObject
    \/ CallParseArray
    \/ CallParseDict
    \/ ArrayElement
    \/ ArrayNested
    \/ ArrayClose
    \/ DictEntry
    \/ DictNested
    \/ DictClose

Spec == Init /\ [][Next]_vars

---------------------------------------------------------------------------
(* parseXRefStreamDict.  In its specification op is "parseXRefStreamDict", *)
(* input the stream dictionary; callerLine and stack are not used.         *)

\* A pointer result of an accessor of types.PDFStreamDict: nil, or a value.
Nil == <<>>
Some(x) == <<x>>
Deref(p) == p[1]

\* the length parseXRefStreamDict wants of W
WLen == 3

\* The entries of a stream dictionary that parseXRefStreamDict reads, each
\* as its accessor returns it: Size() and Prev() a pointer to an int or
\* nil, Index() and W() a pointer to an array or nil.
IndexElements == {PDFInteger(-1), PDFInteger(2), PDFName(<<"A">>)}
WElements == {PDFInteger(-1), PDFInteger(0), PDFInteger(1), PDFName(<<"A">>)}

StreamDicts ==
    [Size : {Nil, Some(-1), Some(0), Some(2)},
     Index : {Nil} \cup {Some(a) : a \in StringsUpTo(IndexElements, MaxIndexLen)},
     W : {Nil} \cup {Some(a) : a \in StringsUpTo(WElements, WLen + 1)},
     Prev : {Nil, Some(7)}]

\* objectRun with j <= count for j < count
objectRunInclusive(startObj, count) ==
    IF count < 0 THEN <<>> ELSE [j \in 1..(count + 1) |-> startObj + (j - 1)]

\* the inner loop of lines 664-666: startObj, startObj+1, ... count times
objectRun(startObj, count) ==
    IF count <= 0 THEN <<>> ELSE [j \in 1..count |-> startObj + (j - 1)]

\* the loop of lines 652-667 from pair i on, objs being the list so far
RECURSIVE indexLoop(_, _, _)
indexLoop(indArr, i, objs) ==
    IF i >= Len(indArr) \div 2 THEN [ok |-> TRUE, objs |-> objs]
    ELSE LET startObj == At(indArr, i * 2)
             count == At(indArr, i * 2 + 1)
         IN IF startObj.t # "Integer" THEN [ok |-> FALSE, objs |-> <<>>]
            ELSE IF count.t # "Integer" THEN [ok |-> FALSE, objs |-> <<>>]
            ELSE indexLoop(indArr, i + 1, objs \o objectRun(startObj.i, count.i))

\* the test of line 648 on the length of the Index array
indexLengthCorrupt(indArr) == Len(indArr) % 2 > 1

\* lines 640-675: the object numbers, from Index or from Size
xrefObjects(sd) ==
    IF sd.Index # Nil
    THEN IF indexLengthCorrupt(Deref(sd.Index)) THEN [ok |-> FALSE, objs |-> <<>>]
         ELSE indexLoop(Deref(sd.Index), 0, <<>>)
    ELSE [ok |-> TRUE, objs |-> objectRun(0, Deref(sd.Size))]

\* widthCorrupt without the test for a negative width
widthCorruptTypeOnly(e) == e.t # "Integer"

\* the test of lines 693-694, 700-701 and 707-708 on one element of W
widthCorrupt(e) == e.t # "Integer" \/ e.i < 0

\* lines 680-712: the field widths
xrefWidths(sd) ==
    IF sd.W = Nil THEN [ok |-> FALSE, err |-> errXrefStreamMissingW, w |-> <<>>]
    ELSE LET arr == Deref(sd.W) IN
         IF Len(arr) # WLen \/ widthCorrupt(arr[1]) \/ widthCorrupt(arr[2])
            \/ widthCorrupt(arr[3])
         THEN [ok |-> FALSE, err |-> errXrefStreamCorruptW, w |-> <<>>]
         ELSE [ok |-> TRUE, err |-> "", w |-> <<arr[1].i, arr[2].i, arr[3].i>>]

parseXRefStreamDict(sd) ==
    IF sd.Size = Nil THEN Fail(errSizeNotAvailable, <<>>)
    ELSE LET o == xrefObjects(sd) IN
    IF ~o.ok THEN Fail(errXrefStreamCorruptIndex, <<>>)
    ELSE LET w == xrefWidths(sd) IN
    IF ~w.ok THEN Fail(w.err, <<>>)
    ELSE Ok([Size |-> Deref(sd.Size), Objects |-> o.objs, W |-> w.w,
             PreviousOffset |-> sd.Prev], <<>>)

InitXRef ==
    /\ op = "parseXRefStreamDict"
    /\ input \in StreamDicts
    /\ callerLine = <<>>
    /\ stack = <<>>
    /\ pc = "call"
    /\ result = NoResult

CallParseXRefStreamDict ==
    /\ Called("parseXRefStreamDict")
    /\ Return(parseXRefStreamDict(input))

NextXRef == CallParseXRefStreamDict

SpecXRef == InitXRef /\ [][NextXRef]_vars

---------------------------------------------------------------------------
(* What the claims say of a buffer, read off the buffer alone. *)

\* the number of characters before the first white space or delimiter of s
TokenLen(s) ==
    LET ends == {i \in 0..(Len(s) - 1) : IsSpace(At(s, i)) \/ delimiter(At(s, i))}
    IN IF ends = {} THEN Len(s) ELSE CHOOSE i \in ends : \A j \in ends : i <= j

FirstToken(s) == Take(s, TokenLen(s))
AfterToken(s) == Drop(s, TokenLen(s))

\* s without its first token and the white space behind it, which must be there
NextToken(s) ==
    LET r == AfterToken(s) IN
    IF Len(r) > 0 /\ IsSpace(r[1]) THEN trimLeftSpace(r) ELSE <<>>

IsInteger(tok) == Atoi(tok).ok

\* s is <int> white space <int> white space R, the R a token of its own
CompleteRef(s) ==
    /\ IsInteger(FirstToken(s))
    /\ IsInteger(FirstToken(NextToken(s)))
    /\ FirstToken(NextToken(NextToken(s))) = <<"R">>

\* what is left of a complete reference s behind its R
AfterRef(s) == Drop(NextToken(NextToken(s)), 1)

Done(fn) == pc = "done" /\ op = fn

---------------------------------------------------------------------------
(* C1: parseArray terminates on every finite buffer: each iteration of its *)
(* loop that does not end the call leaves the loop on a shorter string, so *)
(* that a buffer that runs out behind an element ends the call with        *)
(* errArrayNotTerminated instead of being parsed again.                    *)
C1_LoopConsumes ==
    [][(InLoop("parseArray") /\ pc' = "run" /\ Len(stack') = Len(stack))
         => Len(stack'[Len(stack')].l) < Len(Top.l)]_vars

(* C2: a buffer whose first token is the integer n and which does not go   *)
(* on as a complete <int> <int> R makes parseObject return Integer(n) and  *)
(* hand back the buffer from the end of that first token on.               *)
C2_IntegerAndRemainder ==
    LET s == trimLeftSpace(input) IN
    (Done("parseObject") /\ IsInteger(FirstToken(s)) /\ ~CompleteRef(s))
        => /\ result.ok
           /\ result.val = PDFInteger(Atoi(FirstToken(s)).v)
           /\ callerLine = AfterToken(s)

(* C3: parseObject returns an indirect reference exactly for the buffers   *)
(* that are, behind leading white space, <int> <int> R with R a whole       *)
(* token; it is IndirectReference(a, b) and the buffer handed back starts  *)
(* right behind the R.                                                     *)
C3_IndirectRefIff ==
    LET s == trimLeftSpace(input) IN
    Done("parseObject")
        => /\ (result.ok /\ result.val.t = "IndirectRef") <=> CompleteRef(s)
           /\ CompleteRef(s)
                => /\ result.val = NewPDFIndirectRef(Atoi(FirstToken(s)).v,
                                                     Atoi(FirstToken(NextToken(s))).v)
                   /\ callerLine = AfterRef(s)

---------------------------------------------------------------------------
\* the keys of the entries of a dictionary, in the order of insertion
KeysOf(dict) == [i \in 1..Len(dict) |-> dict[i][1]]

Distinct(ks) == \A i, j \in 1..Len(ks) : ks[i] = ks[j] => i = j

\* the closing bracket the loop of frame f looks for
Closer(f) == IF f.fn = "parseArray" THEN <<"]">> ELSE <<">", ">">>

\* The next step is an iteration of parseDict's loop that reads a key the
\* call has read before.
RepeatedKeyRead ==
    /\ InLoop("parseDict")
    /\ ~HasPrefix(Top.l, Closer(Top))
    /\ parseName(Top.l).ok
    /\ \E i \in 1..Len(Top.keys) : Top.keys[i] = parseName(Top.l).val.name

\* The next step calls dict.Insert with a key the dictionary holds: the
\* iteration has read such a key and parsed its value, or the array or
\* dictionary that is the value of such a key returns.
RepeatedKeyInsert ==
    \/ /\ RepeatedKeyRead
       /\ dictKey(Top).ok
       /\ ~parseObject(dictKey(Top).frame.l).push
       /\ parseObject(dictKey(Top).frame.l).r.ok
    \/ /\ pc = "run"
       /\ Len(stack) >= 2
       /\ HasPrefix(Top.l, Closer(Top))
       /\ LET f == stack[Len(stack) - 1] IN
          /\ f.fn = "parseDict"
          /\ \E i \in 1..Len(f.items) : f.items[i][1] = f.key

\* Every key parseDict has read is an entry of the dictionary it builds,
\* in the order read and once (but the key whose value is an array or a
\* dictionary still being parsed).
EveryKeyOnce ==
    \A d \in 1..Len(stack) :
        LET f == stack[d] IN
        f.fn = "parseDict"
            => /\ Distinct(KeysOf(f.items))
               /\ IF d = Len(stack) THEN KeysOf(f.items) = f.keys
                  ELSE KeysOf(f.items) = Take(f.keys, Len(f.keys) - 1)

(* C4, as claimed: an iteration of parseDict's loop that reads a key for   *)
(* the second time and ends the call ends it with                          *)
(* errDictionaryDuplicateKey, whatever follows the key.                    *)
C4_DuplicateKeyAlways ==
    [][(RepeatedKeyRead /\ pc' = "done")
         => (~result'.ok /\ result'.err = errDictionaryDuplicateKey)]_vars

(* C4, amended: parseDict never overwrites an entry and never returns a    *)
(* dictionary when it has read a key twice: every key read is an entry of  *)
(* its own, and the insertion of a key the dictionary holds, which happens *)
(* once the value behind the repeated key is parsed, ends the call with    *)
(* errDictionaryDuplicateKey.                                              *)
C4_DuplicateKeyOnInsert ==
    /\ []EveryKeyOnce
    /\ [][RepeatedKeyInsert
            => (pc' = "done" /\ ~result'.ok
                /\ result'.err = errDictionaryDuplicateKey)]_vars

C4_Witness ==
    /\ Done("parseDict")
    /\ input = <<"<", "<", "/", "A", " ", "1", "/", "A", " ", "1", ">", ">">>
    /\ result.err = errDictionaryDuplicateKey

(* C5: on a buffer that starts with "/" parseName takes the characters up  *)
(* to the first white space or delimiter as the name and hands back the    *)
(* buffer from that character on; the name is empty when the character     *)
(* behind "/" is a delimiter.                                              *)
C5_NameEndsAtTerminator ==
    (Done("parseName") /\ HasPrefix(input, <<"/">>) /\ result.ok)
        => /\ result.val = PDFName(FirstToken(Drop(input, 1)))
           /\ callerLine = AfterToken(Drop(input, 1))

\* "[", one or more white space characters, "]"
BlankArray(s) ==
    /\ Len(s) >= 3
    /\ s[1] = "[" /\ s[Len(s)] = "]"
    /\ \A i \in 2..(Len(s) - 1) : IsSpace(s[i])

\* "[" and nothing or only white space behind it
OpenArray(s) == Len(s) >= 1 /\ s[1] = "[" /\ \A i \in 2..Len(s) : IsSpace(s[i])

\* "<<", one or more white space characters, ">>"
BlankDict(s) ==
    /\ Len(s) >= 5
    /\ Take(s, 2) = <<"<", "<">> /\ Drop(s, Len(s) - 2) = <<">", ">">>
    /\ \A i \in 3..(Len(s) - 2) : IsSpace(s[i])

(* C6, as claimed: parseArray, and parseObject on an array, fail with      *)
(* errArrayNotTerminated on "[", white space, "]", while parseDict returns *)
(* the empty dictionary on "<<", white space, ">>".                        *)
C6_BlankArrayFails ==
    /\ ((Done("parseArray") \/ Done("parseObject")) /\ BlankArray(input))
         => (~result.ok /\ result.err = errArrayNotTerminated)
    /\ (Done("parseDict") /\ BlankDict(input))
         => (result.ok /\ result.val = PDFDict(<<>>))

(* C6, amended: on "[", white space, "]" parseArray and parseObject return *)
(* the empty array with nothing left of the buffer, as parseDict returns   *)
(* the empty dictionary on "<<", white space, ">>"; errArrayNotTerminated  *)
(* is what they return on "[" with nothing or only white space behind it.  *)
C6_BlankArrayIsEmpty ==
    /\ ((Done("parseArray") \/ Done("parseObject")) /\ BlankArray(input))
         => (result.ok /\ result.val = PDFArray(<<>>) /\ callerLine = <<>>)
    /\ ((Done("parseArray") \/ Done("parseObject")) /\ OpenArray(input))
         => (~result.ok /\ result.err = errArrayNotTerminated /\ callerLine = input)
    /\ (Done("parseDict") /\ BlankDict(input))
         => (result.ok /\ result.val = PDFDict(<<>>) /\ callerLine = <<>>)

C6_Witness ==
    /\ Done("parseArray")
    /\ input = <<"[", " ", "]">>
    /\ result.ok

---------------------------------------------------------------------------
(* The claims of parseXRefStreamDict, under SpecXRef. *)

RECURSIVE SumSeq(_)
SumSeq(ns) == IF Len(ns) = 0 THEN 0 ELSE ns[1] + SumSeq(Drop(ns, 1))

\* the counts of an Index array: the second element of each of its pairs
IndexCounts(indArr) == [k \in 1..(Len(indArr) \div 2) |-> indArr[2 * k].i]

\* the elements of an Index array that belong to a pair are integers
IndexPairsInteger(indArr) ==
    \A k \in 1..(2 * (Len(indArr) \div 2)) : indArr[k].t = "Integer"

Positive(n) == IF n > 0 THEN n ELSE 0

\* W is an array of exactly 3 integers, none negative
WidthsValid(w) ==
    /\ w # Nil
    /\ Len(Deref(w)) = 3
    /\ \A k \in 1..3 : Deref(w)[k].t = "Integer" /\ Deref(w)[k].i >= 0

(* C7: a stream dictionary with a Size entry and an Index array of odd     *)
(* length makes parseXRefStreamDict fail with errXrefStreamCorruptIndex.   *)
C7_OddIndexFails ==
    (Done("parseXRefStreamDict") /\ input.Size # Nil /\ input.Index # Nil
     /\ Len(Deref(input.Index)) % 2 = 1)
        => (~result.ok /\ result.err = errXrefStreamCorruptIndex)

(* C8, as claimed: when parseXRefStreamDict succeeds the list of object    *)
(* numbers is as long as the sum of the Index counts, or without Index as  *)
(* long as Size and then 0, 1, ..., Size-1, for all integers, zero and     *)
(* negative ones included.                                                 *)
C8_LengthIsSum ==
    (Done("parseXRefStreamDict") /\ result.ok)
        => IF input.Index # Nil
           THEN Len(result.val.Objects) = SumSeq(IndexCounts(Deref(input.Index)))
           ELSE /\ Len(result.val.Objects) = Deref(input.Size)
                /\ \A j \in 1..Len(result.val.Objects) : result.val.Objects[j] = j - 1

(* C8, amended: the list is as long as the sum of the positive Index       *)
(* counts (a count of zero or less adds no object number), or without      *)
(* Index as long as Size when Size is positive and empty otherwise, and    *)
(* then 0, 1, ..., Size-1.                                                 *)
C8_LengthIsPositiveSum ==
    (Done("parseXRefStreamDict") /\ result.ok)
        => IF input.Index # Nil
           THEN Len(result.val.Objects)
                  = SumSeq([k \in 1..(Len(Deref(input.Index)) \div 2) |->
                              Positive(IndexCounts(Deref(input.Index))[k])])
           ELSE /\ Len(result.val.Objects) = Positive(Deref(input.Size))
                /\ \A j \in 1..Len(result.val.Objects) : result.val.Objects[j] = j - 1

C8_Witness ==
    /\ Done("parseXRefStreamDict")
    /\ result.ok
    /\ input.Index = Some(<<PDFInteger(2), PDFInteger(2), PDFInteger(2), PDFInteger(-1)>>)
    /\ result.val.Objects = <<2, 3>>

(* C9, as claimed: parseXRefStreamDict succeeds only with a W of exactly   *)
(* 3 integers, none negative, which it copies in order into the            *)
(* descriptor; without W it fails with errXrefStreamMissingW, with any     *)
(* other W with errXrefStreamCorruptW.                                     *)
C9_Widths ==
    Done("parseXRefStreamDict")
        => /\ result.ok
                => /\ WidthsValid(input.W)
                   /\ result.val.W = [k \in 1..3 |-> Deref(input.W)[k].i]
           /\ input.W = Nil => (~result.ok /\ result.err = errXrefStreamMissingW)
           /\ (input.W # Nil /\ ~WidthsValid(input.W))
                => (~result.ok /\ result.err = errXrefStreamCorruptW)

(* C9, amended: the same of a stream dictionary that has a Size entry and  *)
(* whose Index, when it has one, holds integers in its pairs; a dictionary *)
(* without Size or with another element in a pair of Index fails before W  *)
(* is read, with the error of Size or of Index.                            *)
C9_WidthsBehindSizeAndIndex ==
    Done("parseXRefStreamDict")
        => /\ result.ok
                => /\ WidthsValid(input.W)
                   /\ result.val.W = [k \in 1..3 |-> Deref(input.W)[k].i]
           /\ (input.Size # Nil
               /\ (input.Index # Nil => IndexPairsInteger(Deref(input.Index))))
                => /\ input.W = Nil
                        => (~result.ok /\ result.err = errXrefStreamMissingW)
                   /\ (input.W # Nil /\ ~WidthsValid(input.W))
                        => (~result.ok /\ result.err = errXrefStreamCorruptW)
           /\ input.Size = Nil => (~result.ok /\ result.err = errSizeNotAvailable)
           /\ (input.Size # Nil /\ input.Index # Nil
               /\ ~IndexPairsInteger(Deref(input.Index)))
                => (~result.ok /\ result.err = errXrefStreamCorruptIndex)

C9_Witness ==
    /\ Done("parseXRefStreamDict")
    /\ result.ok
    /\ input.W = Some(<<PDFInteger(1), PDFInteger(0), PDFInteger(1)>>)
    /\ result.val.W = <<1, 0, 1>>

---------------------------------------------------------------------------
\* s starts with "<", not with "<<", and holds no ">"
OpenHexLiteral(s) ==
    /\ HasPrefix(s, <<"<">>)
    /\ ~HasPrefix(s, <<"<", "<">>)
    /\ \A i \in 1..Len(s) : s[i] # ">"

(* C10, as claimed: a buffer that starts with "<", not with "<<", and      *)
(* holds no ">" makes parseHexLiteral, and parseObject, fail with          *)
(* errHexLiteralNotTerminated, however short the buffer.                   *)
C10_OpenHexUnterminated ==
    ((Done("parseHexLiteral") \/ Done("parseObject")) /\ OpenHexLiteral(input))
        => (~result.ok /\ result.err = errHexLiteralNotTerminated)

(* C10, amended: so it is for such a buffer of 3 bytes or more; the        *)
(* shorter ones, "<" and "<" with one more byte, fail with                 *)
(* errHexLiteralCorrupt, but "<" in parseObject with errBufNotAvailable.   *)
C10_OpenHexByLength ==
    ((Done("parseHexLiteral") \/ Done("parseObject")) /\ OpenHexLiteral(input))
        => /\ ~result.ok
           /\ callerLine = input
           /\ result.err = IF Len(input) >= 3 THEN errHexLiteralNotTerminated
                           ELSE IF op = "parseObject" /\ Len(input) = 1
                                THEN errBufNotAvailable
                                ELSE errHexLiteralCorrupt

C10_Witness ==
    /\ Done("parseObject")
    /\ input = <<"<", "G", "4">>
    /\ result.err = errHexLiteralNotTerminated

---------------------------------------------------------------------------
\* r is s without one or more of its leading bytes
IsProperSuffix(r, s) == Len(r) < Len(s) /\ r = Drop(s, Len(s) - Len(r))

(* C11: every successful call of parseObject consumes at least one byte:   *)
(* the buffer it hands back is a proper suffix of the buffer it was given. *)
C11_ObjectConsumes ==
    (Done("parseObject") /\ result.ok) => IsProperSuffix(callerLine, input)

---------------------------------------------------------------------------
\* the parsers that take the caller's buffer through the pointer `line`
LineParsers ==
    {"parseObject", "parseArray", "parseDict", "parseName", "parseStringLiteral",
     "parseHexLiteral", "parseNumericOrIndRef", "parseObjectAttributes"}

(* C12: whenever one of the parsers that take the pointer `line` returns   *)
(* an error, the string behind `line` is exactly what it was before the    *)
(* call, also when the failure occurs inside a nested element after        *)
(* earlier elements were parsed.                                           *)
C12_ErrorLeavesBuffer ==
    (pc = "done" /\ op \in LineParsers /\ ~result.ok) => callerLine = input

\* the array nested behind a first element runs out of buffer
C12_Witness ==
    /\ Done("parseObject")
    /\ input = <<"[", "1", " ", "[", "1">>
    /\ ~result.ok
    /\ result.err = errArrayNotTerminated
    /\ callerLine = input

===========================================================================
